---- MODULE Spec2Model ----
(***************************************************************************)
(* A model of nedis: a schema registry (registeredSchemas) and a record    *)
(* store that keeps each record as a Redis hash under "table:pk" and each  *)
(* table's membership as a Redis list under "table".  One NedisClient is   *)
(* shared by the callers; every awaited Redis command is one step.         *)
(***************************************************************************)
EXTENDS Naturals, Sequences, FiniteSets, TLC

VARIABLES
  registeredSchemas,  \* NedisClient.registeredSchemas
  connected,          \* NedisClient.connected
  store,              \* the Redis keyspace
  pc,                 \* per caller: the await its call is suspended at
  call,               \* per caller: the operation and its arguments
  local,              \* per caller: the locals of the suspended call
  result,             \* per caller: what the finished call returned or threw
  regResult,          \* outcome of the registry call of this tick
  live,               \* history: per table, the inserted and not deleted records
  extWrites,          \* history: writes made through other connections
  failed              \* history: a command of this client was rejected

vars == <<registeredSchemas, connected, store, pc, call, local, result,
          regResult, live, extWrites, failed>>

(***************************************************************************)
(* Bounds of the model.                                                    *)
(***************************************************************************)
\* external writes (another Redis connection, as the tests' own client)
MaxExtWrites == 1
\* length of the list handed to registerSchemas
MaxDefs == 3

(***************************************************************************)
(* JavaScript values.  A string is itself; the number n is written "#n";   *)
(* Undefined marks a field an object does not have.                        *)
(***************************************************************************)
Undefined == "<undefined>"
Numbers == {"#13", "#5"}
Fields == {"id", "name", "age", "paws"}
Tables == {"users", "dogs"}
PkVals == {"1", "2"}
Callers == {"a", "b"}

\* String(v): what ioredis sends for a field value, and what Array.join
\* and a template literal produce for a number.
StrOf(v) ==
  CASE v = "#13" -> "13"
    [] v = "#5" -> "5"
    [] OTHER -> v

\* strings that Joi.number() converts to a number
NumericStrings == {"1", "2", "4", "5", "13"}

EmptyObj == [f \in Fields |-> Undefined]
KeysOf(o) == {f \in Fields : o[f] # Undefined}
Obj(id, name, age, paws) ==
  [f \in Fields |-> CASE f = "id" -> id [] f = "name" -> name
                      [] f = "age" -> age [] OTHER -> paws]

\* a faulty Object.assign: the fields of the target win
ObjectAssignTargetWins(target, source) ==
  [f \in Fields |-> IF target[f] # Undefined THEN target[f] ELSE source[f]]

\* Object.assign(target, source): own fields of source overwrite target's
ObjectAssign(target, source) ==
  [f \in Fields |-> IF source[f] # Undefined THEN source[f] ELSE target[f]]

\* a faulty Falsy: only the empty string counts
FalsyEmptyOnly(v) == v = ""
\* a faulty Falsy: the test of get's result is inverted
FalsyInverted(v) == ~(v = Undefined \/ v = "")

\* !v for the values a hash field can hold
Falsy(v) == v = Undefined \/ v = ""

(***************************************************************************)
(* The tests' schemas and Joi.validate.                                    *)
(***************************************************************************)
UserSchema == <<[key |-> "id", type |-> "string"],
                [key |-> "name", type |-> "string"],
                [key |-> "age", type |-> "number"]>>
DogSchema == <<[key |-> "id", type |-> "string"],
               [key |-> "name", type |-> "string"],
               [key |-> "paws", type |-> "number"]>>
JoiSchema(s) == IF s = "UserSchema" THEN UserSchema ELSE DogSchema

userSchema == [name |-> "users", pk |-> "id", schema |-> "UserSchema"]
dogSchema == [name |-> "dogs", pk |-> "id", schema |-> "DogSchema"]
\* a second definition for the name "users"
usersAsDogs == [name |-> "users", pk |-> "id", schema |-> "DogSchema"]
SchemaDefs == {userSchema, dogSchema, usersAsDogs}

SchemaKeySet(s) == {JoiSchema(s)[i].key : i \in 1..Len(JoiSchema(s))}

\* the message of one child of the object schema, "" when it passes
ChildError(k, v) ==
  IF v = Undefined
  THEN "child \"" \o k.key \o "\" fails because [\"" \o k.key \o "\" is required]"
  ELSE IF k.type = "string"
  THEN IF v \in Numbers
       THEN "child \"" \o k.key \o "\" fails because [\"" \o k.key \o "\" must be a string]"
       ELSE IF v = ""
       THEN "child \"" \o k.key \o "\" fails because [\"" \o k.key \o "\" is not allowed to be empty]"
       ELSE ""
  ELSE IF v \in Numbers \/ v \in NumericStrings
       THEN ""
       ELSE "child \"" \o k.key \o "\" fails because [\"" \o k.key \o "\" must be a number]"

\* Joi.validate(data, schema).error.message, "" when there is no error:
\* the first failing child in schema order, then the first unknown key
JoiValidate(data, s) ==
  LET keys == JoiSchema(s)
      bad == {i \in 1..Len(keys) : ChildError(keys[i], data[keys[i].key]) # ""}
      unknown == KeysOf(data) \ SchemaKeySet(s)
  IN IF bad # {}
     THEN LET i == CHOOSE j \in bad : \A m \in bad : j <= m
          IN ChildError(keys[i], data[keys[i].key])
     ELSE IF unknown # {}
     THEN "\"" \o (CHOOSE f \in unknown : TRUE) \o "\" is not allowed"
     ELSE ""

(***************************************************************************)
(* Schema registry: registeredSchemas is a sequence of definitions.        *)
(***************************************************************************)
\* Array.find(s => s.name === name): index of the first match, 0 if none
FindSchema(reg, name) ==
  IF \E i \in 1..Len(reg) : reg[i].name = name
  THEN CHOOSE i \in 1..Len(reg) : reg[i].name = name
                                  /\ \A j \in 1..(i - 1) : reg[j].name # name
  ELSE 0

\* a faulty registerSchema: the duplicate check compares whole definitions
registerSchemaByIdentity(reg, def) ==
  IF \E i \in 1..Len(reg) : reg[i] = def
  THEN [reg |-> reg, err |-> "DuplicateSchemaError",
        msg |-> "\"" \o def.name \o "\" schema is already registered."]
  ELSE [reg |-> Append(reg, def), err |-> "none", msg |-> ""]

\* registerSchema(def) on registry reg: the registry after it and the error thrown
registerSchema(reg, def) ==
  IF FindSchema(reg, def.name) # 0
  THEN [reg |-> reg, err |-> "DuplicateSchemaError",
        msg |-> "\"" \o def.name \o "\" schema is already registered."]
  ELSE [reg |-> Append(reg, def), err |-> "none", msg |-> ""]

\* a faulty registerSchemas: every element is tried, the first error is kept
RECURSIVE registerSchemasAll(_, _)
registerSchemasAll(reg, defs) ==
  IF defs = <<>>
  THEN [reg |-> reg, err |-> "none", msg |-> ""]
  ELSE LET r == registerSchema(reg, Head(defs))
           rest == registerSchemasAll(r.reg, Tail(defs))
       IN IF r.err # "none" THEN [reg |-> rest.reg, err |-> r.err, msg |-> r.msg]
          ELSE rest

\* registerSchemas(defs): Array.map calls registerSchema on each element in
\* order; the first throw ends the map
RECURSIVE registerSchemas(_, _)
registerSchemas(reg, defs) ==
  IF defs = <<>>
  THEN [reg |-> reg, err |-> "none", msg |-> ""]
  ELSE LET r == registerSchema(reg, Head(defs))
       IN IF r.err # "none" THEN r
          ELSE registerSchemas(r.reg, Tail(defs))

getRegisteredSchemas(reg) == reg

\* validateSchema(table): the matching definition, or UnregisteredSchemaError
NoSchema == [name |-> "", pk |-> "", schema |-> ""]
\* a faulty validateSchema: an unknown table falls back on the first
\* registered definition
validateSchemaLenient(reg, table) ==
  LET i == FindSchema(reg, table)
  IN IF reg = <<>>
     THEN [def |-> NoSchema, err |-> "UnregisteredSchemaError",
           msg |-> "Schema \"" \o table \o "\" is not registered."]
     ELSE [def |-> reg[IF i = 0 THEN 1 ELSE i], err |-> "none", msg |-> ""]
validateSchema(reg, table) ==
  LET i == FindSchema(reg, table)
  IN IF i = 0
     THEN [def |-> NoSchema, err |-> "UnregisteredSchemaError",
           msg |-> "Schema \"" \o table \o "\" is not registered."]
     ELSE [def |-> reg[i], err |-> "none", msg |-> ""]

\* a faulty validateData: Joi's verdict is dropped
validateDataSkipped(data, s) == [err |-> "none", msg |-> ""]
\* validateData(data, schema): true, or ValidationError with Joi's message
validateData(data, s) ==
  LET m == JoiValidate(data, s)
  IN IF m = "" THEN [err |-> "none", msg |-> ""]
     ELSE [err |-> "ValidationError", msg |-> m]

(***************************************************************************)
(* The Redis keyspace and the commands the client issues.  A command is    *)
(* atomic at the server; its reply is [store, err, ...].                   *)
(***************************************************************************)
\* [table, pk].join(':')
JoinStr(v) == IF v = Undefined THEN "" ELSE StrOf(v)
getKey(table, pk) == table \o ":" \o JoinStr(pk)
\* `${table}:${pk}`
TemplateStr(v) == IF v = Undefined THEN "undefined" ELSE StrOf(v)
TemplateKey(table, pk) == table \o ":" \o TemplateStr(pk)

RecordKeys == {getKey(t, p) : t \in Tables, p \in PkVals}
KeySpace == Tables \cup RecordKeys

NoValue == [type |-> "none", str |-> "", hash |-> EmptyObj, list |-> <<>>]
StrVal(s) == [type |-> "string", str |-> s, hash |-> EmptyObj, list |-> <<>>]
HashVal(h) == [type |-> "hash", str |-> "", hash |-> h, list |-> <<>>]
ListVal(l) == IF l = <<>> THEN NoValue
              ELSE [type |-> "list", str |-> "", hash |-> EmptyObj, list |-> l]

WrongType == "WRONGTYPE Operation against a key holding the wrong kind of value"

\* a faulty exists: only a hash counts as an existing key
existsHash(st, key) == st[key].type = "hash"

\* EXISTS key
exists(st, key) == st[key].type # "none"

\* HMSET key field value ...: sets the given fields, as strings, and keeps
\* the other fields of an existing hash
hmset(st, key, obj) ==
  IF st[key].type \notin {"none", "hash"}
  THEN [store |-> st, err |-> WrongType]
  ELSE IF KeysOf(obj) = {}
  THEN [store |-> st, err |-> "ERR wrong number of arguments for 'hmset' command"]
  ELSE [store |-> [st EXCEPT ![key] = HashVal(
                     [f \in Fields |-> IF obj[f] # Undefined THEN StrOf(obj[f])
                                       ELSE st[key].hash[f]])],
        err |-> ""]

\* HGETALL key: the empty object for a key that does not exist
hgetall(st, key) ==
  IF st[key].type \notin {"none", "hash"}
  THEN [obj |-> EmptyObj, err |-> WrongType]
  ELSE [obj |-> st[key].hash, err |-> ""]

\* a faulty del: the hash is left in place
delNothing(st, key) == st

\* DEL key
del(st, key) == [st EXCEPT ![key] = NoValue]

\* a faulty rpush: LPUSH, the value goes to the head of the list
lpush(st, key, v) ==
  IF st[key].type \notin {"none", "list"}
  THEN [store |-> st, err |-> WrongType]
  ELSE [store |-> [st EXCEPT ![key] = ListVal(<<v>> \o st[key].list)], err |-> ""]

\* a faulty rpush: a value that is in the list is not added again
rpushUnique(st, key, v) ==
  IF st[key].type \notin {"none", "list"}
  THEN [store |-> st, err |-> WrongType]
  ELSE IF \E i \in 1..Len(st[key].list) : st[key].list[i] = v
  THEN [store |-> st, err |-> ""]
  ELSE [store |-> [st EXCEPT ![key] = ListVal(Append(st[key].list, v))], err |-> ""]

\* RPUSH key value
rpush(st, key, v) ==
  IF st[key].type \notin {"none", "list"}
  THEN [store |-> st, err |-> WrongType]
  ELSE [store |-> [st EXCEPT ![key] = ListVal(Append(st[key].list, v))], err |-> ""]

\* the sequence s without its element at position i
RemoveAt(s, i) == [j \in 1..(Len(s) - 1) |-> IF j < i THEN s[j] ELSE s[j + 1]]

\* a faulty lrem: nothing is removed
lremNothing(st, key, v) == [store |-> st, err |-> ""]

\* a faulty lrem: LREM key 0 value, every occurrence is removed
lremAll(st, key, v) ==
  IF st[key].type \notin {"none", "list"}
  THEN [store |-> st, err |-> WrongType]
  ELSE [store |-> [st EXCEPT ![key] = ListVal(SelectSeq(st[key].list, LAMBDA x : x # v))],
        err |-> ""]

\* LREM key 1 value: removes the first occurrence; an emptied list is deleted
lrem(st, key, v) ==
  IF st[key].type \notin {"none", "list"}
  THEN [store |-> st, err |-> WrongType]
  ELSE LET l == st[key].list
           hits == {i \in 1..Len(l) : l[i] = v}
       IN IF hits = {} THEN [store |-> st, err |-> ""]
          ELSE LET i == CHOOSE j \in hits : \A m \in hits : j <= m
               IN [store |-> [st EXCEPT ![key] = ListVal(RemoveAt(l, i))], err |-> ""]

\* LRANGE key 0 -1
lrange(st, key) ==
  IF st[key].type \notin {"none", "list"}
  THEN [list |-> <<>>, err |-> WrongType]
  ELSE [list |-> st[key].list, err |-> ""]

\* lmembers(table)
lmembers(st, table) == lrange(st, table)

\* Array.includes
\* a faulty includes: the key is never found among the members
IncludesNever(l, v) == FALSE
Includes(l, v) == \E i \in 1..Len(l) : l[i] = v

(***************************************************************************)
(* Inputs of the calls.                                                    *)
(***************************************************************************)
\* a key another client pushed onto an index (test: rpush('users', 'testkey'))
ForeignMember == "testkey"
StoreKeys == KeySpace \cup {ForeignMember}

andrew(pk, age) == Obj(pk, "andrew", age, Undefined)
InsertInputs ==
  {[table |-> "users", data |-> andrew(pk, age)] : pk \in PkVals, age \in {"13", "#13"}}
  \cup {[table |-> "users", data |-> Obj("1", "andrew", Undefined, Undefined)],
        [table |-> "users", data |-> Obj("1", "andrew", "13", "4")],
        [table |-> "dogs", data |-> Obj("1", "ralph", Undefined, "4")]}
UpdateInputs ==
  {[table |-> "users", pk |-> pk, data |-> d] :
     pk \in PkVals,
     d \in {Obj(Undefined, "blaney", Undefined, Undefined),
            Obj(Undefined, Undefined, "#5", Undefined),
            Obj("2", Undefined, Undefined, Undefined)}}
  \cup {[table |-> "users", pk |-> "1",
          data |-> Obj(Undefined, Undefined, Undefined, "4")]}
KeyInputs == {[table |-> t, pk |-> pk] : t \in Tables, pk \in PkVals}

RECURSIVE SeqsUpTo(_, _)
SeqsUpTo(S, n) ==
  IF n = 0 THEN {<<>>}
  ELSE LET shorter == SeqsUpTo(S, n - 1)
       IN shorter \cup {Append(q, x) : q \in shorter, x \in S}

(***************************************************************************)
(* State of a caller.                                                      *)
(***************************************************************************)
NoCall == [op |-> "none", table |-> "", pk |-> "", data |-> EmptyObj]
NoLocal == [key |-> "", item |-> EmptyObj, members |-> <<>>]
NoResult == [status |-> "pending", msg |-> "", obj |-> EmptyObj, arr |-> <<>>]
NoReg == [op |-> "none", defs |-> <<>>, before |-> <<>>, err |-> "none", msg |-> ""]

Returned(status, obj, arr) == [status |-> status, msg |-> "", obj |-> obj, arr |-> arr]
ReturnsTrue == Returned("true", EmptyObj, <<>>)
ReturnsObject(o) == Returned("object", o, <<>>)
ReturnsArray(a) == Returned("array", EmptyObj, a)
Throws(err, m) == [status |-> err, msg |-> m, obj |-> EmptyObj, arr |-> <<>>]

\* the error classes' messages
ConnectionError == Throws("ConnectionError",
  "Connection Error: Could not connect to redis at localhost:6379")
DatabaseInsertError(key, m) == Throws("DatabaseInsertError",
  "Error inserting into key \"" \o key \o "\". Error: " \o m)
ItemNotFoundError(pk, table) == Throws("ItemNotFoundError",
  "\"" \o table \o "\" item by primary key \"" \o TemplateStr(pk) \o "\" does not exist.")
ItemAlreadyExistsError(key) == Throws("ItemAlreadyExistsError",
  "Item with key \"" \o key \o "\" already exists.")
\* an error of the Redis client, passed on as it is
ReplyError(m) == Throws("ReplyError", m)
ConnectionLost == "Connection is closed."

Init ==
  /\ registeredSchemas = <<>>
  /\ connected = FALSE
  /\ store = [k \in StoreKeys |-> NoValue]
  /\ pc = [p \in Callers |-> "idle"]
  /\ call = [p \in Callers |-> NoCall]
  /\ local = [p \in Callers |-> NoLocal]
  /\ result = [p \in Callers |-> NoResult]
  /\ regResult = NoReg
  /\ live = [t \in Tables |-> <<>>]
  /\ extWrites = 0
  /\ failed = FALSE

(***************************************************************************)
(* History of the successful inserts, updates and deletes.                 *)
(***************************************************************************)
LiveInsert(lv, table, key, data) ==
  [lv EXCEPT ![table] = Append(@, [key |-> key, data |-> data, updated |-> FALSE])]
LiveUpdate(lv, table, key) ==
  [lv EXCEPT ![table] =
     [i \in 1..Len(@) |-> IF @[i].key = key THEN [@[i] EXCEPT !.updated = TRUE] ELSE @[i]]]
LiveDelete(lv, table, key) ==
  [lv EXCEPT ![table] =
     LET hits == {i \in 1..Len(@) : @[i].key = key}
     IN IF hits = {} THEN @
        ELSE RemoveAt(@, CHOOSE j \in hits : \A m \in hits : j <= m)]

(***************************************************************************)
(* The steps of a call.  Finish ends the call with a value or an error;    *)
(* Goto suspends it at its next await.                                     *)
(***************************************************************************)
Finish(p, res) ==
  /\ pc' = [pc EXCEPT ![p] = "done"]
  /\ result' = [result EXCEPT ![p] = res]
  /\ UNCHANGED local

Goto(p, next, loc) ==
  /\ pc' = [pc EXCEPT ![p] = next]
  /\ local' = [local EXCEPT ![p] = loc]
  /\ UNCHANGED result

\* the first await of the body of each operation, after checkConnection
Body(op) ==
  CASE op = "insert" -> "insert"
    [] op = "getAll" -> "getAll"
    [] OTHER -> "get"

\* a faulty invocation: checkConnection is left out
InvokeUnchecked(p, c) ==
  /\ pc[p] = "idle"
  /\ regResult = NoReg
  /\ call' = [call EXCEPT ![p] = c]
  /\ pc' = [pc EXCEPT ![p] = Body(c.op)]
  /\ UNCHANGED <<registeredSchemas, connected, store, local, result, regResult,
                 live, extWrites, failed>>

\* a caller invokes an operation: it runs to checkConnection, which invokes
\* connect() when the client is not connected
Invoke(p, c) ==
  /\ pc[p] = "idle"
  /\ regResult = NoReg
  /\ call' = [call EXCEPT ![p] = c]
  /\ pc' = [pc EXCEPT ![p] = IF connected THEN Body(c.op) ELSE "connect"]
  /\ UNCHANGED <<registeredSchemas, connected, store, local, result, regResult,
                 live, extWrites, failed>>

\* connect(): redis.connect() resolves
ConnectOk(p) ==
  /\ pc[p] = "connect"
  /\ connected' = TRUE
  /\ pc' = [pc EXCEPT ![p] = Body(call[p].op)]
  /\ UNCHANGED <<registeredSchemas, store, call, local, result, regResult, live,
                 extWrites, failed>>

\* connect(): redis.connect() rejects
ConnectFail(p) ==
  /\ pc[p] = "connect"
  /\ Finish(p, ConnectionError)
  /\ UNCHANGED <<registeredSchemas, connected, store, call, regResult, live,
                 extWrites, failed>>

\* insert: validateSchema, validateData, getKey, exists
insert(p) ==
  /\ pc[p] = "insert"
  /\ LET c == call[p]
         vs == validateSchema(registeredSchemas, c.table)
         vd == validateData(c.data, vs.def.schema)
         key == getKey(c.table, c.data[vs.def.pk])
     IN IF vs.err # "none" THEN Finish(p, Throws(vs.err, vs.msg))
        ELSE IF vd.err # "none" THEN Finish(p, Throws(vd.err, vd.msg))
        ELSE IF exists(store, key) THEN Finish(p, ItemAlreadyExistsError(key))
        ELSE Goto(p, "addToIndex", [local[p] EXCEPT !.key = key])
  /\ UNCHANGED <<registeredSchemas, connected, store, call, regResult, live,
                 extWrites, failed>>

\* addToIndex: lmembers, and the check that the key is not a member
addToIndex(p) ==
  /\ pc[p] = "addToIndex"
  /\ LET key == local[p].key
         r == lmembers(store, call[p].table)
     IN IF r.err # "" THEN Finish(p, DatabaseInsertError(key, r.err))
        ELSE IF Includes(r.list, key)
        THEN Finish(p, DatabaseInsertError(key, "Key doesnt exist but key is in table set."))
        ELSE Goto(p, "rpush", local[p])
  /\ UNCHANGED <<registeredSchemas, connected, store, call, regResult, live,
                 extWrites, failed>>

\* addToIndex: rpush(table, key)
addToIndexPush(p) ==
  /\ pc[p] = "rpush"
  /\ LET key == local[p].key
         r == rpush(store, call[p].table, key)
     IN /\ store' = r.store
        /\ IF r.err # "" THEN Finish(p, DatabaseInsertError(key, r.err))
           ELSE Goto(p, "hmset", local[p])
  /\ UNCHANGED <<registeredSchemas, connected, call, regResult, live, extWrites, failed>>

\* insert: hmset(key, data), return true
insertWrite(p) ==
  /\ pc[p] = "hmset"
  /\ LET key == local[p].key
         r == hmset(store, key, call[p].data)
     IN /\ store' = r.store
        /\ IF r.err # ""
           THEN Finish(p, DatabaseInsertError(key, r.err)) /\ UNCHANGED live
           ELSE /\ Finish(p, ReturnsTrue)
                /\ live' = LiveInsert(live, call[p].table, key, call[p].data)
  /\ UNCHANGED <<registeredSchemas, connected, call, regResult, extWrites, failed>>

\* get: validateSchema, hgetall, the check of the primary-key field; update
\* and delete go on from here
get(p) ==
  /\ pc[p] = "get"
  /\ LET c == call[p]
         vs == validateSchema(registeredSchemas, c.table)
         r == hgetall(store, TemplateKey(c.table, c.pk))
     IN IF vs.err # "none" THEN Finish(p, Throws(vs.err, vs.msg))
        ELSE IF r.err # "" THEN Finish(p, ReplyError(r.err))
        ELSE IF Falsy(r.obj[vs.def.pk]) THEN Finish(p, ItemNotFoundError(c.pk, c.table))
        ELSE IF c.op = "get" THEN Finish(p, ReturnsObject(r.obj))
        ELSE IF c.op = "update"
        THEN Goto(p, "update", [local[p] EXCEPT !.item = r.obj])
        ELSE Goto(p, "lrem", [local[p] EXCEPT !.key = getKey(c.table, c.pk)])
  /\ UNCHANGED <<registeredSchemas, connected, store, call, regResult, live,
                 extWrites, failed>>

\* a faulty update: only the fields of partialData are written
updateFieldsOnly(p) ==
  /\ pc[p] = "update"
  /\ LET c == call[p]
         key == getKey(c.table, c.pk)
         updatedObject == ObjectAssign(local[p].item, c.data)
         r == hmset(store, key, c.data)
     IN /\ store' = r.store
        /\ IF r.err # ""
           THEN Finish(p, ReplyError(r.err)) /\ UNCHANGED live
           ELSE /\ Finish(p, ReturnsObject(updatedObject))
                /\ live' = LiveUpdate(live, c.table, key)
  /\ UNCHANGED <<registeredSchemas, connected, call, regResult, extWrites, failed>>

\* a faulty update: nothing is written when the key no longer exists
updateIfExists(p) ==
  /\ pc[p] = "update"
  /\ LET c == call[p]
         key == getKey(c.table, c.pk)
         updatedObject == ObjectAssign(local[p].item, c.data)
         r == hmset(store, key, updatedObject)
     IN IF ~exists(store, key)
        THEN Finish(p, ItemNotFoundError(c.pk, c.table)) /\ UNCHANGED <<store, live>>
        ELSE /\ store' = r.store
             /\ IF r.err # ""
                THEN Finish(p, ReplyError(r.err)) /\ UNCHANGED live
                ELSE /\ Finish(p, ReturnsObject(updatedObject))
                     /\ live' = LiveUpdate(live, c.table, key)
  /\ UNCHANGED <<registeredSchemas, connected, call, regResult, extWrites, failed>>

\* a faulty update: the merged record is validated before it is written
updateValidated(p) ==
  /\ pc[p] = "update"
  /\ LET c == call[p]
         key == getKey(c.table, c.pk)
         updatedObject == ObjectAssign(local[p].item, c.data)
         vd == validateData(updatedObject,
                            validateSchema(registeredSchemas, c.table).def.schema)
         r == hmset(store, key, updatedObject)
     IN IF vd.err # "none"
        THEN Finish(p, Throws(vd.err, vd.msg)) /\ UNCHANGED <<store, live>>
        ELSE /\ store' = r.store
             /\ IF r.err # ""
                THEN Finish(p, ReplyError(r.err)) /\ UNCHANGED live
                ELSE /\ Finish(p, ReturnsObject(updatedObject))
                     /\ live' = LiveUpdate(live, c.table, key)
  /\ UNCHANGED <<registeredSchemas, connected, call, regResult, extWrites, failed>>

\* a faulty update: the hash is written at the key of the merged record
updateByMergedKey(p) ==
  /\ pc[p] = "update"
  /\ LET c == call[p]
         updatedObject == ObjectAssign(local[p].item, c.data)
         key == getKey(c.table, updatedObject["id"])
         r == hmset(store, key, updatedObject)
     IN /\ store' = r.store
        /\ IF r.err # ""
           THEN Finish(p, ReplyError(r.err)) /\ UNCHANGED live
           ELSE /\ Finish(p, ReturnsObject(updatedObject))
                /\ live' = LiveUpdate(live, c.table, key)
  /\ UNCHANGED <<registeredSchemas, connected, call, regResult, extWrites, failed>>

\* update: Object.assign(item, data), hmset, return the merged object
update(p) ==
  /\ pc[p] = "update"
  /\ LET c == call[p]
         key == getKey(c.table, c.pk)
         updatedObject == ObjectAssign(local[p].item, c.data)
         r == hmset(store, key, updatedObject)
     IN /\ store' = r.store
        /\ IF r.err # ""
           THEN Finish(p, ReplyError(r.err)) /\ UNCHANGED live
           ELSE /\ Finish(p, ReturnsObject(updatedObject))
                /\ live' = LiveUpdate(live, c.table, key)
  /\ UNCHANGED <<registeredSchemas, connected, call, regResult, extWrites, failed>>

\* delete: lrem(table, 1, key)
deleteIndex(p) ==
  /\ pc[p] = "lrem"
  /\ LET r == lrem(store, call[p].table, local[p].key)
     IN /\ store' = r.store
        /\ IF r.err # "" THEN Finish(p, ReplyError(r.err))
           ELSE Goto(p, "del", local[p])
  /\ UNCHANGED <<registeredSchemas, connected, call, regResult, live, extWrites, failed>>

\* delete: del(key), return true
deleteHash(p) ==
  /\ pc[p] = "del"
  /\ store' = del(store, local[p].key)
  /\ Finish(p, ReturnsTrue)
  /\ live' = LiveDelete(live, call[p].table, local[p].key)
  /\ UNCHANGED <<registeredSchemas, connected, call, regResult, extWrites, failed>>

\* getAll: validateSchema, lmembers
getAll(p) ==
  /\ pc[p] = "getAll"
  /\ LET vs == validateSchema(registeredSchemas, call[p].table)
         r == lmembers(store, call[p].table)
     IN IF vs.err # "none" THEN Finish(p, Throws(vs.err, vs.msg))
        ELSE IF r.err # "" THEN Finish(p, ReplyError(r.err))
        ELSE Goto(p, "hgetall", [local[p] EXCEPT !.members = r.list])
  /\ UNCHANGED <<registeredSchemas, connected, store, call, regResult, live,
                 extWrites, failed>>

\* a faulty getAll: the members without a hash are left out of the result
getAllReadSkipping(p) ==
  /\ pc[p] = "hgetall"
  /\ LET m == SelectSeq(local[p].members, LAMBDA k : store[k].type # "none")
         bad == {i \in 1..Len(m) : hgetall(store, m[i]).err # ""}
     IN IF bad # {}
        THEN Finish(p, ReplyError(hgetall(store, m[CHOOSE i \in bad : TRUE]).err))
        ELSE Finish(p, ReturnsArray([i \in 1..Len(m) |-> hgetall(store, m[i]).obj]))
  /\ UNCHANGED <<registeredSchemas, connected, store, call, regResult, live,
                 extWrites, failed>>

\* getAll: Promise.all(members.map(key => hgetall(key))); the commands are
\* sent in one tick and served in a row
getAllRead(p) ==
  /\ pc[p] = "hgetall"
  /\ LET m == local[p].members
         bad == {i \in 1..Len(m) : hgetall(store, m[i]).err # ""}
     IN IF bad # {}
        THEN Finish(p, ReplyError(hgetall(store, m[CHOOSE i \in bad : TRUE]).err))
        ELSE Finish(p, ReturnsArray([i \in 1..Len(m) |-> hgetall(store, m[i]).obj]))
  /\ UNCHANGED <<registeredSchemas, connected, store, call, regResult, live,
                 extWrites, failed>>

\* the caller takes the outcome of its call
Return(p) ==
  /\ pc[p] = "done"
  /\ pc' = [pc EXCEPT ![p] = "idle"]
  /\ call' = [call EXCEPT ![p] = NoCall]
  /\ result' = [result EXCEPT ![p] = NoResult]
  /\ local' = [local EXCEPT ![p] = NoLocal]
  /\ UNCHANGED <<registeredSchemas, connected, store, regResult, live, extWrites, failed>>

\* the awaited command of a suspended call is rejected (the connection is
\* lost) and the server has not run it: inside insert's try block the error
\* is wrapped, elsewhere it is passed on
\* a faulty try block: hmset is issued after it
InTryIndexOnly(p) == pc[p] \in {"addToIndex", "rpush"}
InTry(p) == pc[p] \in {"addToIndex", "rpush", "hmset"}
AtCommand(p) == pc[p] \in {"insert", "addToIndex", "rpush", "hmset", "get", "update",
                           "lrem", "del", "getAll", "hgetall"}
CommandFails(p) ==
  /\ AtCommand(p)
  /\ pc[p] \in {"insert", "get", "getAll"} =>
       validateSchema(registeredSchemas, call[p].table).err = "none"
  /\ pc[p] = "insert" =>
       validateData(call[p].data,
                    validateSchema(registeredSchemas, call[p].table).def.schema).err = "none"
  /\ failed' = TRUE
  /\ Finish(p, IF InTry(p) THEN DatabaseInsertError(local[p].key, ConnectionLost)
               ELSE ReplyError(ConnectionLost))
  /\ UNCHANGED <<registeredSchemas, connected, store, call, regResult, live,
                 extWrites>>

(***************************************************************************)
(* Registry calls.  They are synchronous: the call and the caller's look   *)
(* at its outcome are one tick, so nothing else runs in between.  rec says *)
(* whether the outcome is kept in regResult for that look.                 *)
(***************************************************************************)
RegOutcome(op, defs, r, rec) ==
  IF rec THEN [op |-> op, defs |-> defs, before |-> registeredSchemas,
               err |-> r.err, msg |-> r.msg]
  ELSE NoReg

RegisterSchema(def, rec) ==
  /\ regResult = NoReg
  /\ LET r == registerSchema(registeredSchemas, def)
     IN /\ registeredSchemas' = r.reg
        /\ regResult' = RegOutcome("registerSchema", <<def>>, r, rec)
  /\ UNCHANGED <<connected, store, pc, call, local, result, live, extWrites, failed>>

RegisterSchemas(defs, rec) ==
  /\ regResult = NoReg
  /\ LET r == registerSchemas(registeredSchemas, defs)
     IN /\ registeredSchemas' = r.reg
        /\ regResult' = RegOutcome("registerSchemas", defs, r, rec)
  /\ UNCHANGED <<connected, store, pc, call, local, result, live, extWrites, failed>>

RegReturn ==
  /\ regResult # NoReg
  /\ regResult' = NoReg
  /\ UNCHANGED <<registeredSchemas, connected, store, pc, call, local, result,
                 live, extWrites, failed>>

(***************************************************************************)
(* Writes through another connection, as the tests make with their own     *)
(* Redis client.                                                           *)
(***************************************************************************)
ExtWrite(st) ==
  /\ extWrites < MaxExtWrites
  /\ regResult = NoReg
  /\ store' = st
  /\ extWrites' = extWrites + 1
  /\ UNCHANGED <<registeredSchemas, connected, pc, call, local, result, regResult,
                 live, failed>>

\* redis.set('users:1', 'blah')
ExtSet(key) == ExtWrite([store EXCEPT ![key] = StrVal("blah")])

\* redis.rpush('users', 'testkey'), redis.rpush('users', 'users:1')
ExtRpush(table, v) ==
  /\ rpush(store, table, v).err = ""
  /\ ExtWrite(rpush(store, table, v).store)

\* redis.del(k)
ExtDel(key) ==
  /\ store[key] # NoValue
  /\ ExtWrite(del(store, key))

(***************************************************************************)
(* Specifications.                                                         *)
(***************************************************************************)
Calls ==
  {[op |-> "insert", table |-> i.table, pk |-> "", data |-> i.data] : i \in InsertInputs}
  \cup {[op |-> op, table |-> k.table, pk |-> k.pk, data |-> EmptyObj] :
          op \in {"get", "delete"}, k \in KeyInputs}
  \cup {[op |-> "update", table |-> u.table, pk |-> u.pk, data |-> u.data] :
          u \in UpdateInputs}
  \cup {[op |-> "getAll", table |-> t, pk |-> "", data |-> EmptyObj] : t \in Tables}

CallStep(p) ==
  \/ ConnectOk(p)
  \/ ConnectFail(p)
  \/ insert(p)
  \/ addToIndex(p)
  \/ addToIndexPush(p)
  \/ insertWrite(p)
  \/ get(p)
  \/ update(p)
  \/ deleteIndex(p)
  \/ deleteHash(p)
  \/ getAll(p)
  \/ getAllRead(p)
  \/ Return(p)

TestDefs == {userSchema, dogSchema}

\* the calls that overlap: one table, one record and its neighbour
RaceCalls ==
  {c \in Calls :
     /\ c.table = "users"
     /\ c.pk \in {"", "1"}
     /\ c.op = "insert" => c.data \in {andrew("1", "13"), andrew("2", "13")}
     /\ c.op = "update" => c.data["id"] = Undefined /\ c.data["paws"] = Undefined}

\* two callers of one client whose calls overlap
Next ==
  \/ \E p \in Callers : \E c \in RaceCalls : Invoke(p, c)
  \/ \E p \in Callers : CallStep(p)
  \/ RegisterSchema(userSchema, FALSE)

Spec == Init /\ [][Next]_vars

\* the calls made while commands fail and other clients write: one table
FaultCalls ==
  {c \in Calls :
     /\ c.table = "users"
     /\ c.op = "insert" => c.data \in {andrew(pk, "13") : pk \in PkVals}
     /\ c.op = "update" => c.data["name"] # Undefined}
FaultKeys == {getKey("users", pk) : pk \in PkVals}

\* one caller, with commands that fail and writes of other clients
NextFault ==
  \/ \E c \in FaultCalls : Invoke("a", c)
  \/ CallStep("a")
  \/ CommandFails("a")
  \/ RegisterSchema(userSchema, FALSE)
  \/ \E key \in FaultKeys : ExtSet(key)
  \/ \E v \in {ForeignMember} \cup FaultKeys : ExtRpush("users", v)
  \/ \E key \in {"users"} \cup FaultKeys : ExtDel(key)

SpecFault == Init /\ [][NextFault]_vars

\* one caller, each call run to completion before the next, no failing
\* command, no other client
NextSeq ==
  \/ \E c \in Calls : Invoke("a", c)
  \/ CallStep("a")
  \/ \E def \in TestDefs : RegisterSchema(def, FALSE)

SpecSeq == Init /\ [][NextSeq]_vars

\* the registry alone, with the outcome of every call kept for the caller
NextReg ==
  \/ \E def \in SchemaDefs : RegisterSchema(def, TRUE)
  \/ \E defs \in SeqsUpTo(SchemaDefs, MaxDefs) : RegisterSchemas(defs, TRUE)
  \/ RegReturn

SpecReg == Init /\ [][NextReg]_vars

(***************************************************************************)
(* What the properties speak of.                                           *)
(***************************************************************************)
Index(t) == store[t].list
IndexKeys(t) == {Index(t)[i] : i \in 1..Len(Index(t))}
Count(l, v) == Cardinality({i \in 1..Len(l) : l[i] = v})
HasHash(key) == store[key].type = "hash"
TableKeys(t) == {getKey(t, pk) : pk \in PkVals}
HashKeys(t) == {k \in TableKeys(t) : HasHash(k)}
\* a record as the store holds it: every value in its string form
Stored(o) == [f \in Fields |-> IF o[f] = Undefined THEN Undefined ELSE StrOf(o[f])]
Quiescent == \A p \in Callers : pc[p] \in {"idle", "done"}
Done(p, op) == pc[p] = "done" /\ call[p].op = op
Answered(p) == result[p].status \notin {"ConnectionError", "ReplyError"}
NoneUpdated(t) == \A i \in 1..Len(live[t]) : ~live[t][i].updated
LiveAt(t, key) == {i \in 1..Len(live[t]) : live[t][i].key = key /\ ~live[t][i].updated}

(***************************************************************************)
(* C1.  One caller, no failure, empty store at the start: after inserts    *)
(* and deletes only, getAll of a registered table returns one element per  *)
(* inserted and not deleted record, in order of insertion.                 *)
(***************************************************************************)
\* C1 as stated: the elements are the inserted records themselves.
C1_GetAllReturnsInsertedRecords ==
  \A p \in Callers :
    (Done(p, "getAll") /\ result[p].status = "array" /\ NoneUpdated(call[p].table))
      => result[p].arr = [i \in 1..Len(live[call[p].table]) |-> live[call[p].table][i].data]

\* C1 amended: getAll returns, for every record inserted and not deleted, in
\* order of insertion, the record with each value in its string form.
C1_GetAllReturnsStoredRecords ==
  \A p \in Callers :
    (Done(p, "getAll") /\ Answered(p) /\ NoneUpdated(call[p].table)
       /\ result[p].status # "UnregisteredSchemaError")
      => /\ result[p].status = "array"
         /\ result[p].arr =
              [i \in 1..Len(live[call[p].table]) |-> Stored(live[call[p].table][i].data)]

\* getAll has returned two records, the later primary key first, one of
\* them inserted with a number
C1_Witness ==
  \E p \in Callers :
    /\ Done(p, "getAll") /\ result[p].status = "array" /\ NoneUpdated(call[p].table)
    /\ Len(result[p].arr) = 2
    /\ result[p].arr[1]["id"] = "2"
    /\ live[call[p].table][1].data["age"] \in Numbers

(***************************************************************************)
(* C2.  Index and hashes between the round trips of a call.                *)
(***************************************************************************)
\* C2 as stated: in every state the keys of a table's index are the keys of
\* its record hashes.
C2_IndexAlwaysEqualsHashes ==
  \A t \in Tables : IndexKeys(t) = HashKeys(t)

\* C2 amended: with one call at a time and no failure, the two key sets
\* differ only while an insert is between its index append and its hash
\* write (its key is in the index and has no hash) or a delete is between
\* its index removal and its hash deletion (its key has a hash and no index
\* entry); these states are there for any other reader of the store.
C2_DifferOnlyInsideInsertOrDelete ==
  \A t \in Tables :
    IndexKeys(t) # HashKeys(t) =>
      \E p \in Callers :
        /\ call[p].table = t
        /\ \/ /\ pc[p] = "hmset"
              /\ IndexKeys(t) = HashKeys(t) \cup {local[p].key}
              /\ ~HasHash(local[p].key)
           \/ /\ pc[p] = "del"
              /\ HashKeys(t) = IndexKeys(t) \cup {local[p].key}
              /\ local[p].key \notin IndexKeys(t)

\* a delete stands between its two writes: the hash has no index entry
C2_Witness ==
  \E p \in Callers :
    /\ pc[p] = "del" /\ HasHash(local[p].key)
    /\ local[p].key \notin IndexKeys(call[p].table)

(***************************************************************************)
(* C3.  One caller, no failure: whenever no call is in flight, index and   *)
(* hashes agree and the index has no duplicate.                            *)
(***************************************************************************)
C3_QuiescentConsistency ==
  Quiescent =>
    \A t \in Tables :
      /\ \A k \in IndexKeys(t) : HasHash(k)
      /\ \A k \in HashKeys(t) : k \in IndexKeys(t)
      /\ \A k \in IndexKeys(t) : Count(Index(t), k) = 1

\* a delete has returned true and the table still has a record
C3_Witness ==
  \E p \in Callers :
    /\ Done(p, "delete") /\ result[p].status = "true"
    /\ Len(Index(call[p].table)) = 1

(***************************************************************************)
(* C4.  Round trip of insert and get.                                      *)
(***************************************************************************)
\* C4 as stated: get returns the fields and values of the inserted record.
C4_GetReturnsInsertedRecord ==
  \A p \in Callers :
    Done(p, "get") =>
      \A i \in LiveAt(call[p].table, TemplateKey(call[p].table, call[p].pk)) :
        /\ result[p].status = "object"
        /\ result[p].obj = live[call[p].table][i].data

\* C4 amended: get returns the fields of the inserted record with every
\* value in its string form, so a number comes back as a string.
C4_GetReturnsStoredRecord ==
  \A p \in Callers :
    (Done(p, "get") /\ Answered(p)) =>
      \A i \in LiveAt(call[p].table, TemplateKey(call[p].table, call[p].pk)) :
        /\ result[p].status = "object"
        /\ result[p].obj = Stored(live[call[p].table][i].data)

\* get has returned a record that was inserted with a number
C4_Witness ==
  \E p \in Callers :
    /\ Done(p, "get") /\ result[p].status = "object"
    /\ \E i \in LiveAt(call[p].table, TemplateKey(call[p].table, call[p].pk)) :
         live[call[p].table][i].data["age"] \in Numbers

(***************************************************************************)
(* C5.  insert of a key that exists.  One caller; commands may fail and    *)
(* another client may have written the key.                                *)
(***************************************************************************)
InsertDef(p) == validateSchema(registeredSchemas, call[p].table)
InsertKey(p) == getKey(call[p].table, call[p].data[InsertDef(p).def.pk])
\* insert is at its existence check with a registered table and valid data
InsertChecked(p) ==
  /\ pc[p] = "insert"
  /\ InsertDef(p).err = "none"
  /\ validateData(call[p].data, InsertDef(p).def.schema).err = "none"
LiveCount(t, key) == Cardinality({i \in 1..Len(live[t]) : live[t][i].key = key})

\* C5: when the key holds any value, the existence check ends the insert
\* with ItemAlreadyExistsError naming the key (unless the command itself is
\* rejected) and the store is as before; a call ends with that error only
\* there, before any write of its own; and after two inserts of one primary
\* key there is one hash, one index entry and one inserted record.
C5_InsertOfExistingKeyChangesNothing ==
  /\ [][\A p \in Callers :
          (InsertChecked(p) /\ store[InsertKey(p)] # NoValue /\ pc'[p] # pc[p])
            => /\ pc'[p] = "done"
               /\ store' = store
               /\ \/ result'[p] = ItemAlreadyExistsError(InsertKey(p))
                  \/ result'[p] = ReplyError(ConnectionLost)]_vars
  /\ [][\A p \in Callers :
          (pc[p] # "done" /\ pc'[p] = "done"
             /\ result'[p].status = "ItemAlreadyExistsError")
            => pc[p] = "insert" /\ store' = store]_vars
  /\ [](\A p \in Callers :
          (Done(p, "insert") /\ result[p].status = "ItemAlreadyExistsError"
             /\ extWrites = 0 /\ ~failed)
            => /\ HasHash(InsertKey(p))
               /\ Count(Index(call[p].table), InsertKey(p)) = 1
               /\ LiveCount(call[p].table, InsertKey(p)) = 1)

\* an insert has failed on a key that another client had set to a string
C5_Witness ==
  \E p \in Callers :
    /\ Done(p, "insert") /\ result[p].status = "ItemAlreadyExistsError"
    /\ store[InsertKey(p)] = StrVal("blah")
    /\ InsertKey(p) \notin IndexKeys(call[p].table)

(***************************************************************************)
(* C6.  Order of delete's two writes and what a failure leaves.            *)
(***************************************************************************)
\* a delete that has read its record ends with an error
DeleteFails(p) ==
  /\ pc[p] \in {"lrem", "del"} /\ pc'[p] = "done"
  /\ result'[p].status # "true"
  /\ extWrites = 0

Overlay(prev, data) ==
  [f \in Fields |-> IF data[f] # Undefined THEN data[f] ELSE prev[f]]
UpdateReturns(p) ==
  pc[p] = "update" /\ pc'[p] = "done" /\ result'[p].status = "object"
UpdateKey(p) == getKey(call[p].table, call[p].pk)

\* C7 as stated: the hash after the call is the previous hash overlaid with
\* partialData, and the returned mapping equals it.
C7_UpdateReturnsStoredHash ==
  [][\A p \in Callers :
       UpdateReturns(p) =>
         /\ store'[UpdateKey(p)].hash = Overlay(store[UpdateKey(p)].hash, call[p].data)
         /\ result'[p].obj = store'[UpdateKey(p)].hash]_vars

\* C7 amended: update returns the previous fields overlaid with partialData
\* as it was given, and stores that mapping with every value in its string
\* form; the two are equal only when partialData holds strings.
C7_UpdateStoresStringFormOfReturn ==
  [][\A p \in Callers :
       UpdateReturns(p) =>
         /\ result'[p].obj = Overlay(store[UpdateKey(p)].hash, call[p].data)
         /\ store'[UpdateKey(p)] = HashVal(Stored(result'[p].obj))]_vars

\* an update with a number has returned: one field new, the others kept
C7_Witness ==
  \E p \in Callers :
    /\ Done(p, "update") /\ result[p].status = "object"
    /\ call[p].data["age"] \in Numbers
    /\ result[p].obj["age"] = call[p].data["age"]
    /\ result[p].obj["name"] = local[p].item["name"]
    /\ store[UpdateKey(p)].hash["age"] = StrOf(call[p].data["age"])

(***************************************************************************)
(* C8.  The primary-key field of a stored record.                          *)
(***************************************************************************)
\* C8 as stated: the hash at "T:pk" holds pk in its primary-key field.
C8_PrimaryKeyNeverChanges ==
  \A t \in Tables : \A pk \in PkVals :
    (HasHash(getKey(t, pk)) /\ validateSchema(registeredSchemas, t).err = "none")
      => store[getKey(t, pk)].hash[validateSchema(registeredSchemas, t).def.pk] = pk

(***************************************************************************)
(* C9, C10.  The registry.                                                 *)
(***************************************************************************)
Names(reg) == {reg[i].name : i \in 1..Len(reg)}
\* the first element whose name is registered before the call or earlier in
\* the list, 0 if there is none
FirstDup(before, defs) ==
  LET dups == {i \in 1..Len(defs) :
                 defs[i].name \in Names(before) \cup {defs[j].name : j \in 1..(i - 1)}}
  IN IF dups = {} THEN 0 ELSE CHOOSE i \in dups : \A j \in dups : i <= j

\* C9: no two registered definitions share a name; a registration of a
\* registered name, alone or in a list, throws DuplicateSchemaError naming
\* it and does not add the element.
C9_SchemaUniqueness ==
  /\ \A i, j \in 1..Len(registeredSchemas) :
       i # j => registeredSchemas[i].name # registeredSchemas[j].name
  /\ regResult.op # "none" =>
       LET d == FirstDup(regResult.before, regResult.defs)
       IN /\ d = 0 => regResult.err = "none"
          /\ d # 0 =>
               /\ regResult.err = "DuplicateSchemaError"
               /\ regResult.msg =
                    "\"" \o regResult.defs[d].name \o "\" schema is already registered."
               /\ Len(registeredSchemas) = Len(regResult.before) + d - 1
               /\ regResult.op = "registerSchema" => registeredSchemas = regResult.before

\* registerSchema has rejected a definition that differs from the registered
\* one of the same name
C9_Witness ==
  /\ regResult.op = "registerSchema"
  /\ regResult.err = "DuplicateSchemaError"
  /\ \A i \in 1..Len(regResult.before) : regResult.before[i] # regResult.defs[1]

\* C10: after registerSchemas(defs) the registry is the registry before it
\* followed by the elements of defs up to, not including, the first one with
\* a registered name; the error is thrown exactly when there is such an
\* element; getRegisteredSchemas returns that sequence.
C10_RegisterSchemasStopsAtFirstDuplicate ==
  regResult.op = "registerSchemas" =>
    LET d == FirstDup(regResult.before, regResult.defs)
        kept == IF d = 0 THEN Len(regResult.defs) ELSE d - 1
    IN /\ getRegisteredSchemas(registeredSchemas)
            = regResult.before \o SubSeq(regResult.defs, 1, kept)
       /\ (d # 0) <=> (regResult.err = "DuplicateSchemaError")

\* a list of three whose second element repeats the first: the first is
\* registered, the third is not
C10_Witness ==
  /\ regResult.op = "registerSchemas"
  /\ Len(regResult.defs) = 3
  /\ FirstDup(regResult.before, regResult.defs) = 2
  /\ regResult.defs[1].name \notin Names(regResult.before)
  /\ regResult.defs[1] \in {registeredSchemas[i] : i \in 1..Len(registeredSchemas)}
  /\ regResult.defs[3].name \notin Names(registeredSchemas)

(***************************************************************************)
(* Errors of the data operations.                                          *)
(***************************************************************************)
IsRegistered(t) == \E i \in 1..Len(registeredSchemas) : registeredSchemas[i].name = t
FirstAwait == {"insert", "get", "getAll"}
Ends(p) == pc[p] # "done" /\ pc'[p] = "done"

\* C11: on a connected client a call of insert, get, getAll, update or
\* delete on a table with no registered schema ends at its first step, the
\* schema lookup, with UnregisteredSchemaError naming the table, and the
\* store is unchanged; no call ends with that error after a later step.
C11_UnregisteredTableFailsFirst ==
  /\ [][\A p \in Callers :
          (pc[p] \in FirstAwait /\ ~IsRegistered(call[p].table) /\ pc'[p] # pc[p])
            => /\ pc'[p] = "done"
               /\ result'[p] = Throws("UnregisteredSchemaError",
                                      "Schema \"" \o call[p].table \o "\" is not registered.")
               /\ store' = store]_vars
  /\ [][\A p \in Callers :
          (Ends(p) /\ result'[p].status = "UnregisteredSchemaError")
            => pc[p] \in FirstAwait /\ store' = store]_vars

\* a delete on an unregistered table has failed while the store holds the
\* records of a registered one
C11_Witness ==
  \E p \in Callers :
    /\ Done(p, "delete")
    /\ result[p].status = "UnregisteredSchemaError"
    /\ ~IsRegistered(call[p].table)
    /\ \E t \in Tables : IsRegistered(t) /\ HashKeys(t) # {}

InIndexMsg == "Key doesnt exist but key is in table set."

\* C12: when insert reaches its index check for a key that has no value in
\* the store and is already in the table's index, the call ends there with
\* DatabaseInsertError "Key doesnt exist but key is in table set." (or with
\* the error of the index read when that command is rejected) and the store
\* is unchanged: no second index entry, no hash.  The steps of insert up to
\* and including the index check write nothing.
C12_OrphanIndexEntryStopsInsert ==
  /\ [][\A p \in Callers :
          (/\ pc[p] = "addToIndex" /\ pc'[p] # pc[p]
           /\ store[local[p].key] = NoValue
           /\ Count(Index(call[p].table), local[p].key) > 0)
            => /\ pc'[p] = "done"
               /\ \/ result'[p] = DatabaseInsertError(local[p].key, InIndexMsg)
                  \/ /\ result'[p] = DatabaseInsertError(local[p].key, ConnectionLost)
                     /\ failed'
               /\ store' = store]_vars
  /\ [][\A p \in Callers :
          (pc[p] \in {"insert", "addToIndex"} /\ pc'[p] # pc[p]) => store' = store]_vars
  /\ [][\A p \in Callers :
          (Ends(p) /\ result'[p].msg = DatabaseInsertError(local[p].key, InIndexMsg).msg)
            => pc[p] = "addToIndex"]_vars

\* an insert has failed on a key that is once in the index and has no value
C12_Witness ==
  \E p \in Callers :
    /\ Done(p, "insert")
    /\ result[p] = DatabaseInsertError(local[p].key, InIndexMsg)
    /\ result[p].msg
         = "Error inserting into key \"users:1\". Error: Key doesnt exist but key is in table set."
    /\ store[local[p].key] = NoValue
    /\ Count(Index(call[p].table), local[p].key) = 1

\* C13: insert writes the index entry before the hash: while the call waits
\* for hmset the key is in the index and has no hash.  When hmset then fails
\* the call ends with DatabaseInsertError naming the key and the message of
\* the failure, not with true, and the store is as the append left it: the
\* key in the index, no hash.  (The store parts are stated for runs without
\* foreign writes, which could remove the index in between.)
C13_FailedHashWriteLeavesIndexEntry ==
  /\ [](\A p \in Callers :
          (pc[p] = "hmset" /\ extWrites = 0)
            => local[p].key \in IndexKeys(call[p].table) /\ ~HasHash(local[p].key))
  /\ [][\A p \in Callers :
          (pc[p] = "hmset" /\ pc'[p] = "done" /\ ~HasHash(local[p].key)')
            => /\ result'[p].status = "DatabaseInsertError"
               /\ \E m \in {ConnectionLost, WrongType} :
                    result'[p] = DatabaseInsertError(local[p].key, m)
               /\ store' = store
               /\ live' = live
               /\ extWrites = 0 => local[p].key \in IndexKeys(call[p].table)']_vars
  /\ [][\A p \in Callers :
          (pc[p] = "hmset" /\ pc'[p] = "done" /\ HasHash(local[p].key)')
            => result'[p] = ReturnsTrue]_vars

\* the hash write of an insert was rejected: the call has failed with the
\* message of the rejection, the key is in the index, there is no hash
C13_Witness ==
  \E p \in Callers :
    /\ Done(p, "insert")
    /\ extWrites = 0
    /\ result[p] = DatabaseInsertError(local[p].key, ConnectionLost)
    /\ Count(Index(call[p].table), local[p].key) = 1
    /\ store[local[p].key] = NoValue
    /\ \A t \in Tables : live[t] = <<>>

(***************************************************************************)
(* C14.  The states a failed insert or delete leaves behind, and what the  *)
(* next operation on them does.  Runs without foreign writes.              *)
(***************************************************************************)
Orphan(t, k) == Count(Index(t), k) > 0 /\ store[k] = NoValue
Unindexed(t, k) == HasHash(k) /\ k \notin IndexKeys(t)
OpKey(p) == IF call[p].op = "insert" THEN InsertKey(p) ELSE UpdateKey(p)
OverInconsistency(p) ==
  LET t == call[p].table
  IN IF call[p].op = "getAll"
     THEN \E k \in TableKeys(t) : Orphan(t, k) \/ Unindexed(t, k)
     ELSE /\ call[p].op = "insert" => IsRegistered(t)
          /\ Orphan(t, OpKey(p)) \/ Unindexed(t, OpKey(p))
NormalResult(r) == r.status \in {"true", "object", "array"}
Rejected(p) == result'[p] = ReplyError(ConnectionLost)

\* C14 as stated: a call that ends while the key it names (for getAll: a key
\* of its table) is in the index without a hash, or has a hash and is not in
\* the index, ends with an error.  The last write of an insert or a delete
\* is left out: there the call itself has made that state.
C14_InconsistencyAlwaysReported ==
  [][\A p \in Callers :
       (Ends(p) /\ extWrites = 0 /\ pc[p] \notin {"hmset", "del"} /\ OverInconsistency(p))
         => ~NormalResult(result'[p])]_vars

\* C14 amended: an index entry without a hash makes insert of the key fail
\* with DatabaseInsertError and get, update and delete of the key fail with
\* ItemNotFoundError, all leaving the store as it is, while getAll returns
\* normally with an empty mapping in its place.  A hash without an index
\* entry makes insert of the key fail with ItemAlreadyExistsError, while
\* get returns it, update rewrites and returns it, getAll returns normally
\* without it, and delete returns true and removes it.
C14_OnlySomeInconsistenciesReported ==
  /\ [][\A p \in Callers :
          (pc[p] = "addToIndex" /\ pc'[p] # pc[p] /\ extWrites = 0
             /\ Orphan(call[p].table, OpKey(p)))
            => /\ pc'[p] = "done"
               /\ result'[p].status = "DatabaseInsertError"
               /\ store' = store]_vars
  /\ [][\A p \in Callers :
          (pc[p] = "insert" /\ pc'[p] # pc[p] /\ extWrites = 0
             /\ IsRegistered(call[p].table)
             /\ Unindexed(call[p].table, OpKey(p)))
            => /\ pc'[p] = "done"
               /\ result'[p] = ItemAlreadyExistsError(OpKey(p)) \/ Rejected(p)
               /\ store' = store]_vars
  /\ [][\A p \in Callers :
          (pc[p] = "get" /\ pc'[p] # pc[p] /\ extWrites = 0
             /\ Orphan(call[p].table, OpKey(p)))
            => /\ pc'[p] = "done"
               /\ result'[p] = ItemNotFoundError(call[p].pk, call[p].table) \/ Rejected(p)
               /\ store' = store]_vars
  /\ [][\A p \in Callers :
          (pc[p] = "get" /\ pc'[p] # pc[p] /\ extWrites = 0 /\ call[p].op = "get"
             /\ Unindexed(call[p].table, OpKey(p)))
            => /\ pc'[p] = "done"
               /\ result'[p] = ReturnsObject(store[OpKey(p)].hash) \/ Rejected(p)
               /\ store' = store]_vars
  /\ [][\A p \in Callers :
          (pc[p] = "hgetall" /\ pc'[p] # pc[p] /\ extWrites = 0)
            => /\ pc'[p] = "done"
               /\ \/ Rejected(p)
                  \/ LET l == Index(call[p].table)
                     IN result'[p] =
                          ReturnsArray([i \in 1..Len(l) |->
                             IF store[l[i]] = NoValue THEN EmptyObj ELSE store[l[i]].hash])
               /\ store' = store]_vars
  /\ [][\A p \in Callers :
          (pc[p] = "update" /\ pc'[p] # pc[p] /\ extWrites = 0
             /\ Unindexed(call[p].table, OpKey(p)))
            => /\ pc'[p] = "done"
               /\ result'[p].status = "object" \/ Rejected(p)
               /\ Unindexed(call[p].table, OpKey(p))']_vars
  /\ [][\A p \in Callers :
          (pc[p] \in {"lrem", "del"} /\ pc'[p] # pc[p] /\ extWrites = 0
             /\ Unindexed(call[p].table, OpKey(p)))
            => \/ pc'[p] = "done" /\ Rejected(p) /\ store' = store
               \/ pc[p] = "lrem" /\ pc'[p] = "del" /\ store' = store
               \/ /\ pc[p] = "del" /\ pc'[p] = "done" /\ result'[p] = ReturnsTrue
                  /\ store' = [store EXCEPT ![OpKey(p)] = NoValue]]_vars

\* after a rejected hmset getAll has returned an array that holds an empty
\* mapping for the index entry without a hash
C14_Witness ==
  \E p \in Callers :
    /\ Done(p, "getAll")
    /\ extWrites = 0 /\ failed
    /\ result[p].status = "array"
    /\ \E i \in 1..Len(result[p].arr) :
         /\ result[p].arr[i] = EmptyObj
         /\ Orphan(call[p].table, Index(call[p].table)[i])

(***************************************************************************)
(* C15.  Two overlapping inserts of one key.                               *)
(***************************************************************************)
PastChecks(p) == call[p].op = "insert" /\ pc[p] \in {"rpush", "hmset"}
InsertedTrue(p) == Done(p, "insert") /\ result[p] = ReturnsTrue
SameKey(p, q) == local[p].key = local[q].key

\* C15: when two overlapping inserts of one key have both passed the
\* existence check and the index check before either has written, the key
\* has no index entry and no hash; from there on neither call is stopped:
\* each appends the key to the index, whatever the index holds by then, and
\* then writes the hash and returns true.
C15_OverlappingInsertsBothSucceed ==
  /\ [](\A p, q \in Callers :
          (p # q /\ pc[p] = "rpush" /\ pc[q] = "rpush" /\ SameKey(p, q))
            => Count(Index(call[p].table), local[p].key) = 0 /\ ~HasHash(local[p].key))
  /\ [][\A p, q \in Callers :
          (/\ p # q /\ SameKey(p, q) /\ pc'[p] # pc[p]
           /\ PastChecks(p)
           /\ PastChecks(q) \/ InsertedTrue(q))
            => \/ /\ pc[p] = "rpush" /\ pc'[p] = "hmset"
                  /\ Index(call[p].table)' = Append(Index(call[p].table), local[p].key)
               \/ /\ pc[p] = "hmset" /\ pc'[p] = "done" /\ result'[p] = ReturnsTrue
                  /\ HasHash(local[p].key)'
                  /\ Index(call[p].table)' = Index(call[p].table)]_vars

\* both callers have inserted "users:1" and got true; the index of users is
\* the key twice
C15_Witness ==
  /\ \A p \in Callers : InsertedTrue(p) /\ local[p].key = "users:1"
  /\ Index("users") = <<"users:1", "users:1">>
  /\ LiveCount("users", "users:1") = 2
  /\ HasHash("users:1")

(***************************************************************************)
(* C16.  Insert of data that the table's Joi schema rejects.               *)
(***************************************************************************)
SchemaOf(t) ==
  registeredSchemas[CHOOSE i \in 1..Len(registeredSchemas) : registeredSchemas[i].name = t]
Invalid(p) ==
  /\ IsRegistered(call[p].table)
  /\ JoiValidate(call[p].data, SchemaOf(call[p].table).schema) # ""

\* C16: an insert with data that the schema of its registered table rejects
\* ends at its first step with ValidationError carrying Joi's message,
\* whether or not the key exists, and the store is unchanged; no call ends
\* with ValidationError after a later step.
C16_InvalidDataFailsBeforeAnyCommand ==
  /\ [][\A p \in Callers :
          (pc[p] = "insert" /\ pc'[p] # pc[p] /\ Invalid(p))
            => /\ pc'[p] = "done"
               /\ result'[p] =
                    Throws("ValidationError",
                           JoiValidate(call[p].data, SchemaOf(call[p].table).schema))
               /\ store' = store]_vars
  /\ [][\A p \in Callers :
          (Ends(p) /\ result'[p].status = "ValidationError")
            => pc[p] = "insert" /\ Invalid(p) /\ store' = store]_vars

\* an insert without age has failed with Joi's message although its key
\* holds a record
C16_Witness ==
  \E p \in Callers :
    /\ Done(p, "insert")
    /\ result[p] = Throws("ValidationError",
                          "child \"age\" fails because [\"age\" is required]")
    /\ HasHash(getKey(call[p].table, call[p].data["id"]))

(***************************************************************************)
(* C17.  delete of an existing record.                                     *)
(***************************************************************************)
\* l2 is l without the first occurrence of k
FirstRemoved(l, l2, k) ==
  \E i \in 1..Len(l) :
    /\ l[i] = k
    /\ \A j \in 1..(i - 1) : l[j] # k
    /\ l2 = SubSeq(l, 1, i - 1) \o SubSeq(l, i + 1, Len(l))
OthersUnchanged(ks) == \A k \in StoreKeys \ ks : store'[k] = store[k]

\* C17: a delete whose get finds the record goes on to lrem, which takes
\* the first occurrence of the key, and no other entry, out of the table's
\* index (or nothing when the key is not in it) and changes no other key;
\* then del removes the key's hash, changes no other key, and the call
\* returns true; a get of a key that holds nothing ends with
\* ItemNotFoundError.  A rejected command is the only other outcome.
C17_DeleteRemovesOneEntryAndTheHash ==
  /\ [][\A p \in Callers :
          (/\ pc[p] = "get" /\ pc'[p] # pc[p] /\ call[p].op = "delete"
           /\ IsRegistered(call[p].table) /\ HasHash(UpdateKey(p)))
            => /\ store' = store
               /\ \/ pc'[p] = "lrem" /\ local'[p].key = UpdateKey(p)
                  \/ pc'[p] = "done" /\ Rejected(p)]_vars
  /\ [][\A p \in Callers :
          (pc[p] = "lrem" /\ pc'[p] # pc[p])
            => LET t == call[p].table
                   k == local[p].key
               IN \/ pc'[p] = "done" /\ Rejected(p) /\ store' = store
                  \/ /\ pc'[p] = "del"
                     /\ OthersUnchanged({t})
                     /\ IF Count(Index(t), k) = 0 THEN Index(t)' = Index(t)
                        ELSE FirstRemoved(Index(t), Index(t)', k)]_vars
  /\ [][\A p \in Callers :
          (pc[p] = "del" /\ pc'[p] # pc[p])
            => /\ pc'[p] = "done"
               /\ \/ Rejected(p) /\ store' = store
                  \/ /\ result'[p] = ReturnsTrue
                     /\ store'[local[p].key] = NoValue
                     /\ OthersUnchanged({local[p].key})]_vars
  /\ [][\A p \in Callers :
          (/\ pc[p] = "get" /\ pc'[p] # pc[p]
           /\ IsRegistered(call[p].table) /\ store[UpdateKey(p)] = NoValue)
            => /\ pc'[p] = "done"
               /\ result'[p] = ItemNotFoundError(call[p].pk, call[p].table) \/ Rejected(p)]_vars

\* the key was twice in the index, after a foreign rpush: delete has
\* returned true, one entry for the key is left and the hash is gone
C17_Witness ==
  \E p \in Callers :
    /\ Done(p, "delete")
    /\ result[p] = ReturnsTrue
    /\ ~failed
    /\ Index(call[p].table) = <<local[p].key>>
    /\ store[local[p].key] = NoValue

(***************************************************************************)
(* C18.  get, update and delete of a primary key without a record.         *)
(***************************************************************************)
\* C18: get, update and delete on a registered table with a primary key
\* whose key holds nothing end at the read of the hash with
\* ItemNotFoundError naming the primary key and the table, and the store is
\* unchanged; no call ends with ItemNotFoundError after a later step.
C18_MissingRecordIsNotFound ==
  /\ [][\A p \in Callers :
          (/\ pc[p] = "get" /\ pc'[p] # pc[p]
           /\ IsRegistered(call[p].table) /\ ~HasHash(UpdateKey(p)))
            => /\ pc'[p] = "done"
               /\ result'[p] =
                    Throws("ItemNotFoundError",
                           "\"" \o call[p].table \o "\" item by primary key \""
                              \o call[p].pk \o "\" does not exist.")
               /\ store' = store]_vars
  /\ [][\A p \in Callers :
          (Ends(p) /\ result'[p].status = "ItemNotFoundError")
            => /\ pc[p] = "get" /\ call[p].op \in {"get", "update", "delete"}
               /\ ~HasHash(UpdateKey(p))
               /\ store' = store]_vars

\* an update of users 2 has failed while users 1 is a record: the key of
\* users 2 holds nothing and the index is the key of users 1
C18_Witness ==
  \E p \in Callers :
    /\ Done(p, "update")
    /\ result[p].status = "ItemNotFoundError"
    /\ result[p].msg = "\"users\" item by primary key \"2\" does not exist."
    /\ store["users:2"] = NoValue
    /\ Index("users") = <<"users:1">>
    /\ HasHash("users:1")

(***************************************************************************)
(* C19, C20.  The connection.                                              *)
(***************************************************************************)
\* caller p invokes the connect primitive of the store in this step
ConnectInvoked(p) == pc[p] # "connect" /\ pc'[p] = "connect"

\* C19: a call of any operation on a client that is not connected invokes
\* connect before anything else, whatever its table and data; connect is
\* invoked only there, so once in a call; when it fails the call ends with
\* ConnectionError naming host and port, with the store and the registry
\* unchanged; no call ends with ConnectionError at any other step.
C19_ConnectFailureComesFirst ==
  /\ [][\A p \in Callers :
          (pc[p] = "idle" /\ pc'[p] # "idle" /\ ~connected)
            => pc'[p] = "connect" /\ store' = store]_vars
  /\ [][\A p \in Callers : ConnectInvoked(p) => pc[p] = "idle"]_vars
  /\ [][\A p \in Callers :
          (pc[p] = "connect" /\ pc'[p] # pc[p])
            => /\ store' = store
               /\ registeredSchemas' = registeredSchemas
               /\ \/ connected' /\ pc'[p] \notin {"idle", "done"}
                  \/ /\ connected' = connected
                     /\ pc'[p] = "done"
                     /\ result'[p] =
                          Throws("ConnectionError",
                                 "Connection Error: Could not connect to redis at localhost:6379")]_vars
  /\ [][\A p \in Callers :
          (Ends(p) /\ result'[p].status = "ConnectionError") => pc[p] = "connect"]_vars

\* an insert into a table that is not registered has failed with
\* ConnectionError on a client that is not connected
C19_Witness ==
  \E p \in Callers :
    /\ Done(p, "insert")
    /\ result[p].status = "ConnectionError"
    /\ ~IsRegistered(call[p].table)
    /\ ~connected

\* C20 as stated: connect is invoked only by a data operation, and only
\* when every earlier invocation has failed: the client is not connected
\* and no other call is waiting for its connect to complete.
C20_ConnectOnlyAfterEarlierOnesFailed ==
  /\ [][(registeredSchemas' # registeredSchemas) => pc' = pc]_vars
  /\ [][\A p \in Callers :
          ConnectInvoked(p)
            => /\ pc[p] = "idle" /\ call'[p].op # "none"
               /\ ~connected
               /\ \A q \in Callers \ {p} : pc[q] # "connect"]_vars

(***************************************************************************)
(* C21.  What a successful insert does to the index.                       *)
(***************************************************************************)
\* C21: the only step of an insert that changes the table's index is its
\* rpush, and that step, when the command is not rejected, makes the index
\* the index before it followed by the new key, and changes no other key;
\* so every earlier entry, a foreign one too, keeps its place.
C21_InsertAppendsToIndex ==
  /\ [][\A p \in Callers :
          (pc[p] = "rpush" /\ pc'[p] # pc[p])
            => \/ pc'[p] = "done" /\ result'[p].status = "DatabaseInsertError"
                  /\ store' = store
               \/ /\ pc'[p] = "hmset"
                  /\ Index(call[p].table)' = Append(Index(call[p].table), local[p].key)
                  /\ OthersUnchanged({call[p].table})]_vars
  /\ [][\A p \in Callers :
          (pc[p] \in {"insert", "addToIndex", "hmset"} /\ pc'[p] # pc[p])
            => Index(call[p].table)' = Index(call[p].table)]_vars
  /\ [][\A p \in Callers :
          (Ends(p) /\ call[p].op = "insert" /\ result'[p] = ReturnsTrue)
            => /\ pc[p] = "hmset"
               /\ OthersUnchanged({local[p].key})
               /\ HasHash(local[p].key)']_vars

\* an insert into a table whose index held a foreign entry has returned
\* true: the index is that entry followed by the new key
C21_Witness ==
  \E p \in Callers :
    /\ Done(p, "insert")
    /\ result[p] = ReturnsTrue
    /\ Index("users") = <<ForeignMember, "users:1">>
    /\ local[p].key = "users:1"
    /\ HasHash("users:1")

(***************************************************************************)
(* C22.  What update writes.                                               *)
(***************************************************************************)
UpdateTarget(p) == call[p].table \o ":" \o call[p].pk

\* C22: no step of an update call, whether the call ends with the merged
\* record or with an error, changes any key but "T:pk": every index and
\* every other hash stay as they are; before its hmset the call changes
\* nothing at all.
C22_UpdateWritesOnlyItsHash ==
  /\ [][\A p \in Callers :
          (call[p].op = "update" /\ pc'[p] # pc[p])
            => /\ OthersUnchanged({UpdateTarget(p)})
               /\ \A t \in Tables : Index(t)' = Index(t)
               /\ pc[p] # "update" => store' = store]_vars
  /\ [][\A p \in Callers :
          (call[p].op = "update" /\ Ends(p) /\ result'[p].status = "object")
            => pc[p] = "update" /\ HasHash(UpdateTarget(p))']_vars

\* an update of users 1 that sets id to "2" has returned while users 2 is
\* another record: both hashes are there, the index is the two keys
C22_Witness ==
  \E p \in Callers :
    /\ Done(p, "update")
    /\ result[p].status = "object"
    /\ UpdateTarget(p) = "users:1"
    /\ store["users:1"].hash["id"] = "2"
    /\ store["users:2"].hash["id"] = "2"
    /\ store["users:2"].hash["name"] = "andrew"
    /\ Index("users") = <<"users:1", "users:2">>

(***************************************************************************)
(* C23.  update and the validator.                                         *)
(***************************************************************************)
\* the record the hash holds after partialData is written over it
Merged(prev, data) ==
  [f \in Fields |-> IF data[f] # Undefined THEN StrOf(data[f]) ELSE prev[f]]

C24_UpdateAfterDeleteRestoresHash ==
  /\ [][\A p \in Callers :
          (pc[p] = "update" /\ pc'[p] # pc[p])
            => /\ pc'[p] = "done"
               /\ result'[p] = ReturnsObject(ObjectAssign(local[p].item, call[p].data))
               /\ HasHash(UpdateTarget(p))'
               /\ \A t \in Tables : Index(t)' = Index(t)]_vars
  /\ [][\A p \in Callers :
          (pc[p] \in {"lrem", "del"} /\ pc'[p] # pc[p])
            => \/ pc[p] = "lrem" /\ pc'[p] = "del"
               \/ /\ pc[p] = "del" /\ pc'[p] = "done" /\ result'[p] = ReturnsTrue
                  /\ ~HasHash(UpdateTarget(p))']_vars
  /\ [][\A p \in Callers :
          (/\ call[p].op = "get" /\ pc[p] = "get" /\ pc'[p] # pc[p]
           /\ IsRegistered(call[p].table)
           /\ Unindexed(call[p].table, UpdateTarget(p)))
            => pc'[p] = "done" /\ result'[p] = ReturnsObject(store[UpdateTarget(p)].hash)]_vars
  /\ [][\A p \in Callers :
          (pc[p] = "getAll" /\ pc'[p] # pc[p] /\ IsRegistered(call[p].table))
            => pc'[p] = "hgetall" /\ local'[p].members = Index(call[p].table)]_vars

\* an update and a delete of users 1 have both succeeded; the key holds the
\* merged hash and the index of users is empty
C24_Witness ==
  \E p, q \in Callers :
    /\ Done(p, "update") /\ result[p].status = "object"
    /\ Done(q, "delete") /\ result[q] = ReturnsTrue
    /\ UpdateTarget(p) = "users:1" /\ UpdateTarget(q) = "users:1"
    /\ store["users:1"] = HashVal(Stored(result[p].obj))
    /\ Index("users") = <<>>

(***************************************************************************)
(* C25.  Two updates of one record that overlap.                           *)
(***************************************************************************)
\* C25: the write of an update stores, for every field of the record the
\* call has read, the value of partialData or else the value it has read,
\* not the value the hash holds at the time of the write; the call returns
\* the merged record.  So a field another update has set since the read is
\* set back.
C25_UpdateWritesBackWhatItRead ==
  [][\A p \in Callers :
       (pc[p] = "update" /\ pc'[p] # pc[p])
         => /\ pc'[p] = "done"
            /\ result'[p].status = "object"
            /\ \A f \in Fields :
                 store'[UpdateTarget(p)].hash[f] =
                   IF call[p].data[f] # Undefined THEN StrOf(call[p].data[f])
                   ELSE IF local[p].item[f] # Undefined THEN local[p].item[f]
                   ELSE store[UpdateTarget(p)].hash[f]]_vars

\* two updates of users 1 have both returned, one that set name and one
\* that set age; the hash holds the new age and the name from before both
C25_Witness ==
  \E p, q \in Callers :
    /\ Done(p, "update") /\ result[p].status = "object"
    /\ Done(q, "update") /\ result[q].status = "object"
    /\ UpdateTarget(p) = "users:1" /\ UpdateTarget(q) = "users:1"
    /\ call[p].data["name"] = "blaney" /\ result[p].obj["name"] = "blaney"
    /\ call[q].data["age"] = "#5"
    /\ store["users:1"].hash["name"] = "andrew"
    /\ store["users:1"].hash["age"] = "5"

(***************************************************************************)
(* C26.  What getAll returns.                                              *)
(***************************************************************************)
\* C26: getAll of a registered table first reads the index; its second
\* step returns an array with one element for each entry it has read, in
\* that order: the hash the entry's key holds at that step, or the empty
\* mapping when it holds none; the store is unchanged.
C26_GetAllReturnsOneElementPerEntry ==
  /\ [][\A p \in Callers :
          (pc[p] = "getAll" /\ pc'[p] = "hgetall")
            => local'[p].members = Index(call[p].table) /\ store' = store]_vars
  /\ [][\A p \in Callers :
          (pc[p] = "hgetall" /\ pc'[p] # pc[p])
            => LET m == local[p].members
               IN /\ pc'[p] = "done"
                  /\ result'[p].status = "array"
                  /\ Len(result'[p].arr) = Len(m)
                  /\ \A i \in 1..Len(m) :
                       result'[p].arr[i] =
                         IF HasHash(m[i]) THEN store[m[i]].hash ELSE EmptyObj
                  /\ store' = store]_vars

\* a delete of users 1 has completed between the two steps of a getAll:
\* the getAll has returned one empty mapping and the index is empty
C26_Witness ==
  \E p, q \in Callers :
    /\ Done(p, "getAll")
    /\ result[p] = ReturnsArray(<<EmptyObj>>)
    /\ local[p].members = <<"users:1">>
    /\ Done(q, "delete") /\ result[q] = ReturnsTrue
    /\ Index("users") = <<>>
    /\ store["users:1"] = NoValue

(***************************************************************************)
(* C27.  An index entry without a hash and the calls of the client.        *)
(***************************************************************************)
\* a call is past its reads and about to write at key k
WriteInFlight(k) ==
  \E p \in Callers : pc[p] \in {"rpush", "hmset", "update", "lrem", "del"} /\ OpKey(p) = k

\* C27: when key k is in the index of its table and holds nothing, and no
\* call that has read the store earlier is about to write at k, no step of
\* the client changes that: k keeps its entries in the index and holds
\* nothing.  An insert of k passes the existence check and ends at the index
\* check with DatabaseInsertError; get, update and delete of k end with
\* ItemNotFoundError; a rejected command is the only other outcome.
C27_OrphanStaysThroughTheApi ==
  /\ [][\A t \in Tables : \A k \in TableKeys(t) :
          (Orphan(t, k) /\ ~WriteInFlight(k) /\ extWrites' = extWrites)
            => /\ store'[k] = NoValue
               /\ Count(Index(t)', k) = Count(Index(t), k)
               /\ ~WriteInFlight(k)']_vars
  /\ [][\A p \in Callers :
          (/\ call[p].op = "insert" /\ pc[p] \in {"insert", "addToIndex"}
           /\ pc'[p] # pc[p] /\ IsRegistered(call[p].table)
           /\ Orphan(call[p].table, OpKey(p)))
            => \/ pc[p] = "insert" /\ pc'[p] = "addToIndex"
               \/ pc[p] = "insert" /\ pc'[p] = "done" /\ Rejected(p)
               \/ /\ pc[p] = "addToIndex" /\ pc'[p] = "done"
                  /\ result'[p].status = "DatabaseInsertError"]_vars
  /\ [][\A p \in Callers :
          (/\ call[p].op \in {"get", "update", "delete"} /\ pc[p] = "get"
           /\ pc'[p] # pc[p] /\ IsRegistered(call[p].table)
           /\ Orphan(call[p].table, OpKey(p)))
            => /\ pc'[p] = "done"
               /\ result'[p].status = "ItemNotFoundError" \/ Rejected(p)]_vars

\* after a rejected hmset has left users 1 in the index without a hash, a
\* delete of users 1 has failed with ItemNotFoundError and the entry is
\* still there
C27_Witness ==
  \E p \in Callers :
    /\ Done(p, "delete")
    /\ result[p].status = "ItemNotFoundError"
    /\ extWrites = 0 /\ failed
    /\ UpdateTarget(p) = "users:1"
    /\ Orphan("users", "users:1")

====
